---- MODULE Spec2Model ----
(***************************************************************************)
(* Model of the DouBanWatching plugin (plugins/doubanwatching/__init__.py): *)
(* the webhook handlers sync_log / sync_played, the TV and movie pipelines, *)
(* the archive synchronisation and the pure helpers exclude_keyword and     *)
(* format_title.                                                            *)
(*                                                                          *)
(* A Python str is modelled as a sequence of one-character strings, so that *)
(* `in`, str.index, slicing and re.split are computed as Python computes    *)
(* them.  External collaborators (MediaChain, DoubanHelper) answer          *)
(* nondeterministically.                                                    *)
(***************************************************************************)
EXTENDS Integers, Sequences, FiniteSets, TLC

VARIABLES
    config,      \* self._plugin_config
    store,       \* the persisted plugin data under key "data"
    lock,        \* module-level threading.Lock: 0 = free, else the holder
    h,           \* per webhook-dispatch thread: the locals of the handler
    now,         \* logical clock behind datetime.now()
    delivered,   \* number of handler invocations dispatched so far
    call,        \* one application of a pure helper or of the restore
    history,     \* the successful syncs so far, in order: the store key, the
                 \* status the archive accepted and the season of the event
    saved_config, \* the plugin configuration persisted by update_config
    disk         \* the backup file last written by _export_config_data

vars == <<config, store, lock, h, now, delivered, call, history, saved_config, disk>>

----------------------------------------------------------------------------
(* Bounds *)

NThreads == 2
MaxDeliveries == 2
MaxEpisode == 2
MaxSeason == 2
MaxLen == 3

Threads == 1..NThreads

----------------------------------------------------------------------------
(* Python string primitives *)

\* s[i:i+len(k)] == k  (i is 1-based)
MatchAt(s, k, i) ==
    /\ i + Len(k) - 1 <= Len(s)
    /\ \A j \in 1..Len(k) : s[i + j - 1] = k[j]

\* Python `k in s`
Contains(s, k) == \E i \in 1..(Len(s) + 1) : MatchAt(s, k, i)

\* Python s.index(k), 1-based; 0 stands for the ValueError raised when absent
Index(s, k) ==
    IF Contains(s, k)
    THEN CHOOSE i \in 1..(Len(s) + 1) :
            MatchAt(s, k, i) /\ \A j \in 1..(i - 1) : ~MatchAt(s, k, j)
    ELSE 0

\* One-character tokens for the non-ASCII characters the code uses
FullWidthComma == "U+FF0C"
CharDi == "U+7B2C"
CharJi == "U+5B63"

\* the separators of re.split(r"[<U+FF0C>,]", ...): full-width and ASCII comma
Commas == {",", FullWidthComma}

RECURSIVE re_split(_)
re_split(s) ==
    IF \A i \in 1..Len(s) : s[i] \notin Commas
    THEN <<s>>
    ELSE LET i == CHOOSE i \in 1..Len(s) :
                     s[i] \in Commas /\ \A j \in 1..(i - 1) : s[j] \notin Commas
         IN  <<SubSeq(s, 1, i - 1)>> \o re_split(SubSeq(s, i + 1, Len(s)))

\* str(n) for a non-negative int
Digit(d) == <<"0", "1", "2", "3", "4", "5", "6", "7", "8", "9">>[d + 1]

RECURSIVE Str(_)
Str(n) == IF n < 10 THEN <<Digit(n)>> ELSE Str(n \div 10) \o <<Digit(n % 10)>>

----------------------------------------------------------------------------
(* Pure helpers of the plugin *)

\* exclude_keyword(...)["ret"]
exclude_keyword(channel, path, keywords) ==
    IF keywords = <<>> THEN FALSE
    ELSE IF channel # "plex" /\ path = <<>> THEN FALSE
    ELSE LET keywords_list == re_split(keywords)
         IN  \E n \in 1..Len(keywords_list) : Contains(path, keywords_list[n])

\* variant: the season label is appended from season 1 on
format_title_gt0(title, season_id) ==
    IF season_id > 0
    THEN title \o <<" ", CharDi>> \o Str(season_id) \o <<CharJi>>
    ELSE title

\* variant: the season label is appended from season 3 on
format_title_gt2(title, season_id) ==
    IF season_id > 2
    THEN title \o <<" ", CharDi>> \o Str(season_id) \o <<CharJi>>
    ELSE title

format_title(title, season_id) ==
    IF season_id > 1
    THEN title \o <<" ", CharDi>> \o Str(season_id) \o <<CharJi>>
    ELSE title

\* event_info.item_name.index(" S")
SeasonMarker == <<" ", "S">>
tv_index(item_name) == Index(item_name, SeasonMarker)

\* event_info.item_name[:index]
tv_title(item_name) == SubSeq(item_name, 1, tv_index(item_name) - 1)

\* self._plugin_config.user.split(",")
RECURSIVE split_comma(_)
split_comma(s) ==
    IF \A i \in 1..Len(s) : s[i] # ","
    THEN {s}
    ELSE LET i == CHOOSE i \in 1..Len(s) :
                     s[i] = "," /\ \A j \in 1..(i - 1) : s[j] # ","
         IN  {SubSeq(s, 1, i - 1)} \cup split_comma(SubSeq(s, i + 1, Len(s)))

----------------------------------------------------------------------------
(* Data *)

\* the literal sets of sync_log / sync_played
play_start == {"playback.start", "media.play", "PlaybackStart"}
played_events == {"item.markplayed", "media.scrobble"}

EventKinds == {"playback.start", "item.markplayed", "playback.stop"}
UserNames == {<<"u">>, <<"x">>}
Channels == {"emby", "plex"}
Paths == {<<>>, <<"a">>}
TmdbIds == {"603"}

\* "A S1" (show "A") and "A" (no season marker)
TVNames == {<<"A", " ", "S", "1">>, <<"A">>}
MovieNames == {<<"M">>}

TVEvents ==
    [event : EventKinds, user_name : UserNames, item_type : {"TV"},
     item_name : TVNames, season_id : 1..MaxSeason, episode_id : 1..MaxEpisode,
     tmdb_id : TmdbIds, item_path : Paths, channel : Channels]

MovieEvents ==
    [event : EventKinds, user_name : UserNames, item_type : {"MOV"},
     item_name : MovieNames, season_id : {0}, episode_id : {0},
     tmdb_id : TmdbIds, item_path : Paths, channel : Channels]

\* e.g. Plex music: an item_type the plugin does not support
OtherEvents ==
    [event : EventKinds, user_name : UserNames, item_type : {"AUD"},
     item_name : {<<"M">>}, season_id : {0}, episode_id : {0},
     tmdb_id : TmdbIds, item_path : Paths, channel : Channels]

Events == TVEvents \cup MovieEvents \cup OtherEvents

NoEvent ==
    [event |-> "", user_name |-> <<>>, item_type |-> "", item_name |-> <<>>,
     season_id |-> 0, episode_id |-> 0, tmdb_id |-> "None", item_path |-> <<>>,
     channel |-> ""]

\* DouBanWatchingConfig (the fields the handlers read)
Configs ==
    [first : BOOLEAN, private : {TRUE}, user : {<<"u">>},
     exclude : {<<>>, <<"a">>}]

\* MediaChain().recognize_media(...): None, or a MediaInfo of which the
\* handlers read poster_path and len(seasons.get(season_id, []))
NoMedia == [found |-> FALSE, poster_path |-> "", episodes |-> 0]
MediaInfos == [found : {TRUE}, poster_path : {"/original/p.jpg"}, episodes : 0..MaxEpisode]

\* DoubanHelper.get_subject_id(title): (None, None) or (subject_name, subject_id)
NoSubject == [subject_name |-> "None", subject_id |-> "None"]
Subjects == {[subject_name |-> "n1", subject_id |-> "1"]}

EmptyStore == [k \in {} |-> NoSubject]

\* variant: the saved mapping holds the new record only
Upsert_only_new(items, title, value) == [k \in {title} |-> value]

\* processed_items[title] = value ; every other key is kept
Upsert(items, title, value) ==
    [k \in DOMAIN items \cup {title} |-> IF k = title THEN value ELSE items[k]]

\* no file at the path
MissingFile ==
    [exists |-> FALSE, parses |-> FALSE, has_config |-> FALSE, has_data |-> FALSE,
     plugin_config |-> CHOOSE c \in Configs : TRUE,
     data |-> [kind |-> "object", value |-> EmptyStore]]

\* the locals of one handler invocation
IdleH ==
    [pc |-> "idle", played |-> FALSE, ev |-> NoEvent,
     processed_items |-> EmptyStore, ctitle |-> <<>>, title |-> <<>>,
     status |-> "", mediainfo |-> NoMedia, subject |-> NoSubject,
     outcome |-> "none", recLog |-> <<>>, findLog |-> <<>>, setLog |-> <<>>,
     wrote |-> FALSE]

NoCall == [fn |-> "none"]

----------------------------------------------------------------------------
(* The handlers, cut at their external calls *)

\* the handler is about to return (or to raise) with the given outcome; a
\* mark-played handling still holds the lock at this point
Finish(r, outcome) == [r EXCEPT !.outcome = outcome, !.pc = "ret"]

\* variant: the playback-start gate without the user test
Gate_any_user(e, played) ==
    \/ e.event \in play_start
    \/ played

\* sync_log line 98-101
Gate(e, played) ==
    \/ e.event \in play_start /\ e.user_name \in split_comma(config.user)
    \/ played

\* sync_played line 126-129
PlayedGate(e) ==
    e.event \in played_events /\ e.user_name \in split_comma(config.user)

\* variant: the first-episode test written as `episode_id < 1`
SkipFirstEpisode_lt1(e) == e.episode_id < 1 /\ config.first

\* _process_tv_show line 144
SkipFirstEpisode(e) == e.episode_id < 2 /\ config.first

\* _process_tv_show up to the first recognize_media call
process_tv_show(r) ==
    IF tv_index(r.ev.item_name) = 0 THEN Finish(r, "Raised")
    ELSE IF SkipFirstEpisode(r.ev)
         THEN Finish([r EXCEPT !.ctitle = tv_title(r.ev.item_name)], "SkippedFirstEpisode")
         ELSE [r EXCEPT !.ctitle = tv_title(r.ev.item_name), !.pc = "rec1"]

\* _process_movie up to the first recognize_media call
process_movie(r) == [r EXCEPT !.ctitle = r.ev.item_name, !.pc = "rec1"]

\* variant: every item_type other than "TV" is taken for a movie
Dispatch_else_movie(r) ==
    IF r.ev.item_type = "TV" THEN process_tv_show(r) ELSE process_movie(r)

\* sync_log line 113-119
Dispatch(r) ==
    IF r.ev.item_type = "TV" THEN process_tv_show(r)
    ELSE IF r.ev.item_type = "MOV" THEN process_movie(r)
    ELSE Finish(r, "Unsupported")

\* sync_log from its first line to the first external call
sync_log(e, played) ==
    LET r == [IdleH EXCEPT !.ev = e, !.played = played, !.processed_items = store]
    IN  IF ~Gate(e, played) THEN Finish(r, "Ignored")
        ELSE IF exclude_keyword(e.channel, e.item_path, config.exclude)
             THEN Finish(r, "Excluded")
             ELSE Dispatch(r)

\* variant: an existing record blocks the sync whatever the episode count is
AlreadySyncedTV_any_episode(r, episodes, title) ==
    title \in DOMAIN r.processed_items

\* variant: the record is looked up under the title before format_title
AlreadySyncedTV_canonical_key(r, episodes, title) ==
    r.ctitle \in DOMAIN r.processed_items /\ episodes # r.ev.episode_id

\* variant: the episode test of line 168 inverted
AlreadySyncedTV_inverted(r, episodes, title) ==
    title \in DOMAIN r.processed_items /\ episodes = r.ev.episode_id

\* _process_tv_show line 163-172
AlreadySyncedTV(r, episodes, title) ==
    title \in DOMAIN r.processed_items /\ episodes # r.ev.episode_id

tv_status(episodes, episode_id) == IF episodes = episode_id THEN "collect" ELSE "do"

tv_recognized(r, m) ==
    LET episodes == m.episodes
        title == format_title(r.ctitle, r.ev.season_id)
        r1 == [r EXCEPT !.mediainfo = m, !.title = title,
                        !.status = tv_status(episodes, r.ev.episode_id)]
    IN  IF AlreadySyncedTV(r, episodes, title)
        THEN Finish(r1, "AlreadySynced")
        ELSE [r1 EXCEPT !.pc = "find"]

\* variant: the movie pipeline does not consult processed_items
movie_recognized_no_check(r, m) ==
    [r EXCEPT !.mediainfo = m, !.title = r.ev.item_name, !.status = "collect",
              !.pc = "find"]

\* _process_movie line 196-200
movie_recognized(r, m) ==
    LET title == r.ev.item_name
        r1 == [r EXCEPT !.mediainfo = m, !.title = title, !.status = "collect"]
    IN  IF title \in DOMAIN r.processed_items
        THEN Finish(r1, "AlreadySynced")
        ELSE [r1 EXCEPT !.pc = "find"]

Recognized(r, m) ==
    IF r.ev.item_type = "TV" THEN tv_recognized(r, m) ELSE movie_recognized(r, m)

\* the first _recognize_media call (line 151 / 184), constrained by tmdb_id
FirstRecognition(r, m) ==
    LET r1 == [r EXCEPT !.recLog = Append(@, [tmdbid |-> r.ev.tmdb_id, found |-> m.found])]
    IN  IF m.found THEN Recognized(r1, m) ELSE [r1 EXCEPT !.pc = "rec2"]

\* variant: the retry passes the event's tmdb id again
SecondRecognition_same_tmdbid(r, m) ==
    LET r1 == [r EXCEPT !.recLog = Append(@, [tmdbid |-> r.ev.tmdb_id, found |-> m.found])]
    IN  IF m.found THEN Recognized(r1, m) ELSE Finish(r1, "RecognitionFailed")

\* the retry with the tmdb id cleared (line 157-161 / 190-194)
SecondRecognition(r, m) ==
    LET r1 == [r EXCEPT !.recLog = Append(@, [tmdbid |-> "None", found |-> m.found])]
    IN  IF m.found THEN Recognized(r1, m) ELSE Finish(r1, "RecognitionFailed")

\* _sync_to_douban line 217-221, 242-245
SubjectLookup(r, s) ==
    LET r1 == [r EXCEPT !.findLog = Append(@, r.title)]
    IN  IF s = NoSubject THEN Finish(r1, "SubjectNotFound")
        ELSE [r1 EXCEPT !.subject = s, !.pc = "set"]

\* the record of line 231-237
NewRecord(r) ==
    [subject_id |-> r.subject.subject_id,
     subject_name |-> r.subject.subject_name,
     timestamp |-> now,
     poster_path |-> r.mediainfo.poster_path,
     type |-> IF r.ev.item_type = "TV" THEN "TVSeries" ELSE "Movie"]

\* variant: the record is written and saved whatever set_watching_status returns
StatusUpdate_ignore_ret(r, ret) ==
    LET r1 == [r EXCEPT !.setLog = Append(@, [subject_id |-> r.subject.subject_id,
                                              status |-> r.status,
                                              private |-> config.private]),
                        !.processed_items = Upsert(@, r.title, NewRecord(r)),
                        !.wrote = TRUE]
    IN  IF ret THEN Finish(r1, "Synced") ELSE Finish(r1, "SyncFailed")

\* _sync_to_douban line 225-241
StatusUpdate(r, ret) ==
    LET r1 == [r EXCEPT !.setLog = Append(@, [subject_id |-> r.subject.subject_id,
                                              status |-> r.status,
                                              private |-> config.private])]
    IN  IF ret
        THEN Finish([r1 EXCEPT !.processed_items = Upsert(@, r.title, NewRecord(r)),
                               !.wrote = TRUE], "Synced")
        ELSE Finish(r1, "SyncFailed")

----------------------------------------------------------------------------
(* Actions *)

Init ==
    /\ config \in Configs
    /\ store = EmptyStore
    /\ lock = 0
    /\ h = [t \in Threads |-> IdleH]
    /\ now = 1
    /\ delivered = 0
    /\ call = NoCall
    /\ history = <<>>
    /\ saved_config = config
    /\ disk = MissingFile

\* the dispatcher invokes sync_log(event) on thread t
webhook_sync_log(t, e) ==
    /\ h[t].pc = "idle"
    /\ delivered < MaxDeliveries
    /\ delivered' = delivered + 1
    /\ h' = [h EXCEPT ![t] = sync_log(e, FALSE)]
    /\ UNCHANGED <<config, store, lock, now, call, history, saved_config, disk>>

\* the dispatcher invokes sync_played(event) on thread t
webhook_sync_played(t, e) ==
    /\ h[t].pc = "idle"
    /\ delivered < MaxDeliveries
    /\ delivered' = delivered + 1
    /\ h' = [h EXCEPT ![t] =
                IF PlayedGate(e)
                THEN [IdleH EXCEPT !.ev = e, !.played = TRUE, !.pc = "lock"]
                ELSE Finish([IdleH EXCEPT !.ev = e], "Ignored")]
    /\ UNCHANGED <<config, store, lock, now, call, history, saved_config, disk>>

\* variant: the critical section is entered without waiting for the lock
acquire_lock_no_wait(t) ==
    /\ h[t].pc = "lock"
    /\ lock' = t
    /\ h' = [h EXCEPT ![t] = sync_log(h[t].ev, TRUE)]
    /\ UNCHANGED <<config, store, now, delivered, call, history, saved_config, disk>>

\* `with lock:` entered, then sync_log(event, played=True) up to its first
\* external call
acquire_lock(t) ==
    /\ h[t].pc = "lock"
    /\ lock = 0
    /\ lock' = t
    /\ h' = [h EXCEPT ![t] = sync_log(h[t].ev, TRUE)]
    /\ UNCHANGED <<config, store, now, delivered, call, history, saved_config, disk>>

\* variant: an exception leaves the critical section without releasing the lock
handler_return_raise_keeps_lock(t) ==
    /\ h[t].pc = "ret"
    /\ lock' = IF lock = t /\ h[t].outcome # "Raised" THEN 0 ELSE lock
    /\ h' = [h EXCEPT ![t] = IdleH]
    /\ UNCHANGED <<config, store, now, delivered, call, history, saved_config, disk>>

\* the handler returns to the dispatcher, by return or by exception; leaving
\* `with lock:` releases the lock when this handling holds it
handler_return(t) ==
    /\ h[t].pc = "ret"
    /\ lock' = IF lock = t THEN 0 ELSE lock
    /\ h' = [h EXCEPT ![t] = IdleH]
    /\ UNCHANGED <<config, store, now, delivered, call, history, saved_config, disk>>

recognize_first(t, m) ==
    /\ h[t].pc = "rec1"
    /\ h' = [h EXCEPT ![t] = FirstRecognition(h[t], m)]
    /\ UNCHANGED <<config, store, lock, now, delivered, call, history, saved_config, disk>>

recognize_retry(t, m) ==
    /\ h[t].pc = "rec2"
    /\ h' = [h EXCEPT ![t] = SecondRecognition(h[t], m)]
    /\ UNCHANGED <<config, store, lock, now, delivered, call, history, saved_config, disk>>

get_subject_id(t, s) ==
    /\ h[t].pc = "find"
    /\ h' = [h EXCEPT ![t] = SubjectLookup(h[t], s)]
    /\ UNCHANGED <<config, store, lock, now, delivered, call, history, saved_config, disk>>

\* set_watching_status returns ret; on success the record is written and
\* save_data("data", processed_items) replaces the persisted store
set_watching_status(t, ret) ==
    /\ h[t].pc = "set"
    /\ h' = [h EXCEPT ![t] = StatusUpdate(h[t], ret)]
    /\ store' = IF StatusUpdate(h[t], ret).wrote
                THEN StatusUpdate(h[t], ret).processed_items
                ELSE store
    /\ now' = IF StatusUpdate(h[t], ret).wrote THEN now + 1 ELSE now
    /\ history' = IF StatusUpdate(h[t], ret).wrote
                  THEN Append(history, [title |-> h[t].title, status |-> h[t].status,
                                        season_id |-> h[t].ev.season_id])
                  ELSE history
    /\ UNCHANGED <<config, lock, delivered, call, saved_config, disk>>

Step(t) ==
    \/ \E e \in Events : webhook_sync_log(t, e)
    \/ \E e \in Events : webhook_sync_played(t, e)
    \/ acquire_lock(t)
    \/ handler_return(t)
    \/ \E m \in MediaInfos \cup {NoMedia} : recognize_first(t, m)
    \/ \E m \in MediaInfos \cup {NoMedia} : recognize_retry(t, m)
    \/ \E s \in Subjects \cup {NoSubject} : get_subject_id(t, s)
    \/ \E ret \in BOOLEAN : set_watching_status(t, ret)

\* webhook deliveries handled one after the other
Next == Step(1)

Spec == Init /\ [][Next]_vars

----------------------------------------------------------------------------
(* One show, all its seasons: playback-start events handled one after the
   other, season 0 (specials) included *)

SeasonEvents ==
    [event : {"playback.start"}, user_name : {<<"u">>}, item_type : {"TV"},
     item_name : {<<"A", " ", "S", "1">>}, season_id : 0..MaxSeason,
     episode_id : 1..MaxEpisode, tmdb_id : TmdbIds, item_path : {<<>>},
     channel : {"emby"}]

SeasonInit == Init /\ config.exclude = <<>>

SeasonNext ==
    \/ \E e \in SeasonEvents : webhook_sync_log(1, e)
    \/ handler_return(1)
    \/ \E m \in MediaInfos \cup {NoMedia} : recognize_first(1, m)
    \/ \E m \in MediaInfos \cup {NoMedia} : recognize_retry(1, m)
    \/ \E s \in Subjects \cup {NoSubject} : get_subject_id(1, s)
    \/ \E ret \in BOOLEAN : set_watching_status(1, ret)

SeasonSpec == SeasonInit /\ [][SeasonNext]_vars

----------------------------------------------------------------------------
(* Concurrent deliveries: the dispatcher runs handlers on several threads.
   Every delivery reaches both registered handlers, sync_log and sync_played *)

\* mark-played deliveries for one movie
PlayedEvents ==
    {e \in MovieEvents : /\ e.event = "item.markplayed"
                         /\ e.user_name = <<"u">>
                         /\ e.item_path = <<>>
                         /\ e.channel = "emby"}

PlayedInit == Init /\ config.exclude = <<>> /\ ~config.first

PlayedNext ==
    \E t \in Threads :
        \/ \E e \in PlayedEvents : webhook_sync_log(t, e)
        \/ \E e \in PlayedEvents : webhook_sync_played(t, e)
        \/ acquire_lock(t)
        \/ handler_return(t)
        \/ \E m \in MediaInfos \cup {NoMedia} : recognize_first(t, m)
        \/ \E m \in MediaInfos \cup {NoMedia} : recognize_retry(t, m)
        \/ \E s \in Subjects \cup {NoSubject} : get_subject_id(t, s)
        \/ \E ret \in BOOLEAN : set_watching_status(t, ret)

PlayedSpec == PlayedInit /\ [][PlayedNext]_vars

\* playback-start and mark-played deliveries for two movies
ConcEvents ==
    [event : {"playback.start", "item.markplayed"}, user_name : {<<"u">>},
     item_type : {"MOV"}, item_name : {<<"M">>, <<"N">>}, season_id : {0},
     episode_id : {0}, tmdb_id : TmdbIds, item_path : {<<>>},
     channel : {"emby"}]

\* the recognizer finds the media and the archive accepts every update
ConcNext ==
    \E t \in Threads :
        \/ \E e \in ConcEvents : webhook_sync_log(t, e)
        \/ \E e \in ConcEvents : webhook_sync_played(t, e)
        \/ acquire_lock(t)
        \/ handler_return(t)
        \/ \E m \in MediaInfos : recognize_first(t, m)
        \/ \E s \in Subjects : get_subject_id(t, s)
        \/ set_watching_status(t, TRUE)

ConcSpec == PlayedInit /\ [][ConcNext]_vars

----------------------------------------------------------------------------
(* Restore: init_plugin with run_restore set calls _import_config_data *)

RestoreTitles == {<<"M">>, <<"N">>}

RestoreRecords ==
    [subject_id : {"1"}, subject_name : {"n1"}, timestamp : {1, 2},
     poster_path : {"/original/p.jpg"}, type : {"Movie"}]

RestoreStores == UNION {[D -> RestoreRecords] : D \in SUBSET RestoreTitles}

\* what json.load finds under "data": a JSON object, or a value that is
\* not a mapping
JsonData ==
    [kind : {"object"}, value : RestoreStores]
        \cup [kind : {"array", "null", "string"}, value : {EmptyStore}]

\* the backup file at backup_path: absent, not JSON, or a JSON object
\* with or without the two entries
BackupFiles ==
    [exists : {TRUE}, parses : {TRUE}, has_config : {TRUE}, has_data : {TRUE},
     plugin_config : Configs, data : JsonData]
    \cup
    [exists : BOOLEAN, parses : BOOLEAN, has_config : BOOLEAN, has_data : BOOLEAN,
     plugin_config : {CHOOSE c \in Configs : TRUE},
     data : {[kind |-> "object", value |-> EmptyStore]}]

\* variant: the existing record wins on a key collision
dict_or_left_wins(existing, import) ==
    [k \in DOMAIN existing \cup DOMAIN import |->
        IF k \in DOMAIN existing THEN existing[k] ELSE import[k]]

\* existing_data | import_data (line 556)
dict_or(existing, import) ==
    [k \in DOMAIN existing \cup DOMAIN import |->
        IF k \in DOMAIN import THEN import[k] ELSE existing[k]]

\* variant: update_config is called as soon as the configuration entry is read
import_config_data_config_first(f, existing, cfg) ==
    IF ~f.exists THEN [result |-> "FileNotFoundError", config |-> cfg, data |-> existing]
    ELSE IF ~f.parses THEN [result |-> "Exception", config |-> cfg, data |-> existing]
    ELSE IF ~f.has_config THEN [result |-> "Exception", config |-> cfg, data |-> existing]
    ELSE IF ~f.has_data \/ f.data.kind # "object"
         THEN [result |-> "Exception", config |-> f.plugin_config, data |-> existing]
    ELSE [result |-> "ok", config |-> f.plugin_config,
          data |-> dict_or(existing, f.data.value)]

\* _import_config_data line 548-567: the result logged, the configuration
\* and the store persisted afterwards
import_config_data(f, existing, cfg) ==
    IF ~f.exists THEN [result |-> "FileNotFoundError", config |-> cfg, data |-> existing]
    ELSE IF ~f.parses \/ ~f.has_config \/ ~f.has_data \/ f.data.kind # "object"
         THEN [result |-> "Exception", config |-> cfg, data |-> existing]
    ELSE [result |-> "ok", config |-> f.plugin_config,
          data |-> dict_or(existing, f.data.value)]

RestoreInit ==
    /\ config \in Configs
    /\ store \in RestoreStores
    /\ lock = 0
    /\ h = [t \in Threads |-> IdleH]
    /\ now = 1
    /\ delivered = 0
    /\ call = NoCall
    /\ history = <<>>
    /\ saved_config = config
    /\ disk = MissingFile

\* init_plugin(config) with run_restore set and backup_path naming file f
init_plugin_restore(c, f) ==
    /\ config' = c
    /\ call' = [fn |-> "restore", file |-> f, existing |-> store,
                config_before |-> saved_config,
                result |-> import_config_data(f, store, saved_config).result]
    /\ saved_config' = import_config_data(f, store, saved_config).config
    /\ store' = import_config_data(f, store, saved_config).data
    /\ UNCHANGED <<lock, h, now, delivered, history, disk>>

RestoreNext == \E c \in Configs, f \in BackupFiles : init_plugin_restore(c, f)

RestoreSpec == RestoreInit /\ [][RestoreNext]_vars

----------------------------------------------------------------------------
(* Progress: every running handler thread keeps running, every external
   call returns *)

\* mark-played deliveries that end in each way: a movie, an excluded movie,
\* a first and a later episode, a TV name without the season marker, and
\* an unsupported item type
FairEvents ==
    {e \in Events :
        /\ e.event = "item.markplayed" /\ e.user_name = <<"u">>
        /\ e.channel = "emby" /\ e.season_id <= 1 /\ e.episode_id <= 2
        /\ e.item_path # <<>> => e.item_type = "MOV"
        /\ e.item_type = "TV" /\ tv_index(e.item_name) # 0 => e.episode_id = 1}

\* what recognize_media returns for them: nothing, or a media with no
\* episode or one episode in the season
FairMedia == {m \in MediaInfos \cup {NoMedia} : m.episodes \in {0, 1}}

\* the steps of thread t that are not a new delivery
Progress(t) ==
    \/ acquire_lock(t)
    \/ handler_return(t)
    \/ \E m \in FairMedia : recognize_first(t, m)
    \/ \E m \in FairMedia : recognize_retry(t, m)
    \/ \E s \in Subjects \cup {NoSubject} : get_subject_id(t, s)
    \/ \E ret \in BOOLEAN : set_watching_status(t, ret)

FairNext ==
    \E t \in Threads :
        \/ \E e \in FairEvents : webhook_sync_played(t, e)
        \/ Progress(t)

FairSpec ==
    Init /\ [][FairNext]_vars /\ \A t \in Threads : WF_vars(Progress(t))

----------------------------------------------------------------------------
(* One webhook message reaches both registered handlers: sync_log on one
   thread, sync_played on another *)

DispatchConfigs ==
    [first : {FALSE}, private : {TRUE}, user : {<<"u">>, <<"u", ",", "v">>},
     exclude : {<<>>, <<"a">>}]

DispatchEvents ==
    [event : play_start \cup played_events \cup {"playback.stop"},
     user_name : {<<"u">>, <<"v">>, <<"x">>},
     item_type : {"MOV"}, item_name : {<<"M">>}, season_id : {0},
     episode_id : {0}, tmdb_id : TmdbIds, item_path : Paths,
     channel : {"emby"}]

DispatchInit ==
    /\ config \in DispatchConfigs
    /\ store = EmptyStore
    /\ lock = 0
    /\ h = [t \in Threads |-> IdleH]
    /\ now = 1
    /\ delivered = 0
    /\ call = NoCall
    /\ history = <<>>
    /\ saved_config = config
    /\ disk = MissingFile

\* the event manager hands event e to sync_log and to sync_played
webhook_message(e) ==
    /\ h[1].pc = "idle" /\ h[2].pc = "idle"
    /\ delivered < MaxDeliveries
    /\ delivered' = delivered + 1
    /\ h' = [h EXCEPT
                ![1] = sync_log(e, FALSE),
                ![2] = IF PlayedGate(e)
                       THEN [IdleH EXCEPT !.ev = e, !.played = TRUE, !.pc = "lock"]
                       ELSE Finish([IdleH EXCEPT !.ev = e], "Ignored")]
    /\ UNCHANGED <<config, store, lock, now, call, history, saved_config, disk>>

DispatchNext ==
    \/ \E e \in DispatchEvents : webhook_message(e)
    \/ \E t \in {1, 2} :
          \/ acquire_lock(t)
          \/ handler_return(t)
          \/ \E m \in MediaInfos \cup {NoMedia} : recognize_first(t, m)
          \/ \E m \in MediaInfos \cup {NoMedia} : recognize_retry(t, m)
          \/ \E s \in Subjects \cup {NoSubject} : get_subject_id(t, s)
          \/ \E ret \in BOOLEAN : set_watching_status(t, ret)

DispatchSpec == DispatchInit /\ [][DispatchNext]_vars

----------------------------------------------------------------------------
(* Backup and restore through init_plugin: the configuration dict saved by
   the form, the switches run_backup / run_restore and backup_path *)

\* config.get(k, default)
Get(d, k, default) == IF k \in DOMAIN d THEN d[k] ELSE default

\* the configuration dict as the form saves it (get_form line 516-529)
FormConfigs ==
    [enable : BOOLEAN, private : {TRUE}, first : {TRUE}, user : {<<"u">>},
     exclude : {<<>>}]

\* init_plugin line 61-72: the dataclass built from the dict
DouBanWatchingConfig(d) ==
    [enabled |-> Get(d, "enable", FALSE),
     private |-> Get(d, "private", TRUE),
     first |-> Get(d, "first", TRUE),
     user |-> Get(d, "user", <<>>),
     exclude |-> Get(d, "exclude", <<>>)]

\* dataclasses.asdict: one key per field, named as the field
asdict(cfg) == cfg

\* the JSON document _export_config_data writes (line 536-543)
ExportFile(cfg, data) ==
    [exists |-> TRUE, parses |-> TRUE, has_config |-> TRUE, has_data |-> TRUE,
     plugin_config |-> asdict(cfg),
     data |-> [kind |-> "object", value |-> data]]

\* backup_path: the key is absent, or names a directory, or names the
\* backup file on disk
BackupPaths == {"unset", "dir", "file"}

\* _export_config_data opens os.path.join(path, name) for writing: this
\* fails, uncaught, when path names a file
ExportRaises(path) == path = "file"

\* _import_config_data(path): open fails on no path or a directory
ImportAt(path, file, existing, cfg) ==
    IF path # "file"
    THEN [result |-> "Exception", config |-> cfg, data |-> existing]
    ELSE import_config_data(file, existing, cfg)

NotRun(existing, cfg) == [result |-> "none", config |-> cfg, data |-> existing]

\* variant: the restore block placed before the backup block
init_plugin_steps_restore_first(run_backup, run_restore, path) ==
    LET cfg == DouBanWatchingConfig(saved_config)
        imp == IF run_restore
               THEN ImportAt(path, disk, store, saved_config)
               ELSE NotRun(store, saved_config)
        raised == run_backup /\ ExportRaises(path)
        exported == run_backup /\ ~raised
    IN  [cfg |-> cfg, raised |-> raised, exported |-> exported,
         disk |-> IF exported THEN ExportFile(cfg, imp.data) ELSE disk,
         import |-> imp]

\* what one init_plugin call does: the backup file on disk, whether the
\* call raised, and the outcome of the import
init_plugin_steps(run_backup, run_restore, path) ==
    LET cfg == DouBanWatchingConfig(saved_config)
        raised == run_backup /\ ExportRaises(path)
        exported == run_backup /\ ~raised
        disk1 == IF exported THEN ExportFile(cfg, store) ELSE disk
    IN  [cfg |-> cfg, raised |-> raised, exported |-> exported, disk |-> disk1,
         import |-> IF run_restore /\ ~raised
                    THEN ImportAt(path, disk1, store, saved_config)
                    ELSE NotRun(store, saved_config)]

BackupInit ==
    /\ saved_config \in FormConfigs
    /\ config = DouBanWatchingConfig(saved_config)
    /\ store \in RestoreStores
    /\ disk \in {MissingFile} \cup
                 {ExportFile(DouBanWatchingConfig(d), st) :
                      d \in FormConfigs, st \in RestoreStores}
    /\ lock = 0
    /\ h = [t \in Threads |-> IdleH]
    /\ now = 1
    /\ delivered = 0
    /\ call = NoCall
    /\ history = <<>>

\* the framework calls init_plugin with the saved configuration dict
init_plugin(run_backup, run_restore, path) ==
    LET r == init_plugin_steps(run_backup, run_restore, path)
    IN  /\ config' = r.cfg
        /\ disk' = r.disk
        /\ saved_config' = r.import.config
        /\ store' = r.import.data
        /\ call' = [fn |-> "init_plugin", run_backup |-> run_backup,
                    run_restore |-> run_restore, path |-> path,
                    store_before |-> store, saved_before |-> saved_config,
                    disk_before |-> disk, exported |-> r.exported,
                    raised |-> r.raised, result |-> r.import.result]
        /\ UNCHANGED <<lock, h, now, delivered, history>>

BackupNext ==
    \E run_backup \in BOOLEAN, run_restore \in BOOLEAN, path \in BackupPaths :
        init_plugin(run_backup, run_restore, path)

BackupSpec == BackupInit /\ [][BackupNext]_vars

----------------------------------------------------------------------------
(* The dashboard timeline: get_line_item over the persisted store *)

\* a "%Y-%m-%d %H:%M:%S" timestamp, ordered as datetime orders it: year,
\* month and the position of the instant within the month
TicksPerMonth == 2
Stamp(year, month, tick) == (year * 12 + (month - 1)) * TicksPerMonth + tick
Year(ts) == (ts \div TicksPerMonth) \div 12
Month(ts) == ((ts \div TicksPerMonth) % 12) + 1

DashTimes ==
    {Stamp(2024, 1, 0), Stamp(2024, 2, 0), Stamp(2024, 12, 0),
     Stamp(2025, 1, 0), Stamp(2025, 1, 1)}

DashTitles == {<<"M">>, <<"N">>, <<"O">>}

\* records as _sync_to_douban writes them; the poster is the recognized
\* one, a poster that is not an original-size path, or missing
DashRecords ==
    [subject_id : {"1"}, subject_name : {"n1"}, timestamp : DashTimes,
     poster_path : {"/original/p.jpg"}, type : {"Movie"}]
    \cup
    [subject_id : {"1"}, subject_name : {"n1"}, timestamp : {Stamp(2024, 2, 1)},
     poster_path : {"/w500/p.jpg", ""}, type : {"Movie"}]

\* stores whose records have pairwise different timestamps
DashStores ==
    {st \in UNION {[D -> DashRecords] : D \in SUBSET DashTitles} :
        \A j, k \in DOMAIN st : j # k => st[j].timestamp # st[k].timestamp}

DashConfigs ==
    [pc_month : 1..MaxLen, pc_num : {1, 2}, mobile_month : {2}, mobile_num : {1}]

\* poster_path.count("original") >= 1
HasOriginal(poster) == poster \in {"/original/p.jpg"}

\* sorted(data.items(), key=timestamp)[::-1]: the keys, newest first
RECURSIVE sorted_reversed(_, _)
sorted_reversed(data, K) ==
    IF K = {} THEN <<>>
    ELSE LET k == CHOOSE k \in K :
                      \A j \in K : data[j].timestamp <= data[k].timestamp
         IN  <<k>> \o sorted_reversed(data, K \ {k})

NoGroup == [month |-> 0, items |-> <<>>]

\* the month heading with its count, and the cards cut to [:limit_num]
CloseGroup(cur, limit_num) ==
    [month |-> cur.month, num_movies |-> Len(cur.items),
     items |-> SubSeq(cur.items, 1,
                      IF Len(cur.items) < limit_num THEN Len(cur.items) ELSE limit_num)]

LoopStart(limit_month) ==
    [content |-> <<>>, cur |-> NoGroup, last_month |-> 0,
     limit_month |-> limit_month - 1, stopped |-> FALSE]

\* get_line_item line 652-653
MonthBudgetSpent(st) == st.limit_month < 1

\* one pass of the for loop of line 630-737 for record val under key;
\* m is what recognize_media returns for a record without poster
LoopBody(st, key, val, m, limit_num) ==
    IF st.stopped THEN st
    ELSE IF val.poster_path = "" /\ ~m.found THEN st
    ELSE LET poster == IF val.poster_path = "" THEN m.poster_path
                       ELSE val.poster_path
             month == Month(val.timestamp)
             st1 == IF month = st.last_month THEN st
                    ELSE [content |-> IF st.last_month # 0
                                      THEN Append(st.content,
                                                  CloseGroup(st.cur, limit_num))
                                      ELSE st.content,
                          limit_month |-> IF st.last_month # 0
                                          THEN st.limit_month - 1
                                          ELSE st.limit_month,
                          cur |-> [month |-> month, items |-> <<>>],
                          last_month |-> month,
                          stopped |-> FALSE]
         IN  IF month # st.last_month /\ MonthBudgetSpent(st)
             THEN [st EXCEPT !.stopped = TRUE]
             ELSE IF ~HasOriginal(poster) THEN st1
                  ELSE [st1 EXCEPT !.cur.items = Append(@, key)]

RECURSIVE Loop(_, _, _, _, _)
Loop(st, keys, data, m, limit_num) ==
    IF keys = <<>> THEN st
    ELSE Loop(LoopBody(st, Head(keys), data[Head(keys)], m, limit_num),
              Tail(keys), data, m, limit_num)

\* get_line_item(mobile): the month groups of the timeline
get_line_item(data, cfg, mobile, m) ==
    LET limit_month == IF mobile THEN cfg.mobile_month ELSE cfg.pc_month
        limit_num == IF mobile THEN cfg.mobile_num ELSE cfg.pc_num
        st == Loop(LoopStart(limit_month), sorted_reversed(data, DOMAIN data),
                   data, m, limit_num)
    IN  IF st.cur # NoGroup
        THEN Append(st.content, CloseGroup(st.cur, limit_num))
        ELSE st.content

DashInit ==
    /\ config \in DashConfigs
    /\ store \in DashStores
    /\ lock = 0
    /\ h = [t \in Threads |-> IdleH]
    /\ now = 1
    /\ delivered = 0
    /\ call = NoCall
    /\ history = <<>>
    /\ saved_config = config
    /\ disk = MissingFile

\* get_dashboard for a desktop or a mobile user agent
get_dashboard(mobile, m) ==
    /\ call' = [fn |-> "get_line_item", mobile |-> mobile, m |-> m,
                content |-> get_line_item(store, config, mobile, m)]
    /\ UNCHANGED <<config, store, lock, h, now, delivered, history,
                   saved_config, disk>>

DashNext ==
    \E mobile \in BOOLEAN, m \in {NoMedia} \cup {x \in MediaInfos : x.episodes = 0} :
        get_dashboard(mobile, m)

DashSpec == DashInit /\ [][DashNext]_vars

----------------------------------------------------------------------------
(* The pure helpers applied to drawn inputs *)

SeqsUpTo(A, n) == UNION {[1..k -> A] : k \in 0..n}

KeywordChars == {"a", "b", ",", FullWidthComma}
PathChars == {"a", "b"}
TitleChars == {"A", " ", "S"}

\* show titles: non-empty, no leading or trailing space
ShowTitles ==
    {w \in SeqsUpTo(TitleChars, MaxLen) : Len(w) > 0 /\ w[1] # " " /\ w[Len(w)] # " "}

\* "<show title> S<season>E<episode>"
EpisodeName(show, season, episode) ==
    show \o SeasonMarker \o Str(season) \o <<"E">> \o Str(episode)

ExcludeCalls ==
    [fn : {"exclude_keyword"}, channel : Channels, path : SeqsUpTo(PathChars, 2),
     keywords : SeqsUpTo(KeywordChars, MaxLen), done : {FALSE}, ret : {FALSE}]

TitleCalls ==
    {[fn |-> "title", item_type |-> ty, show |-> w,
      item_name |-> IF ty = "TV" THEN EpisodeName(w, sn, 1) ELSE w,
      done |-> FALSE, raised |-> FALSE, ret |-> <<>>] :
        ty \in {"TV", "MOV"}, w \in ShowTitles, sn \in 1..MaxSeason}

FormatCalls ==
    [fn : {"format_title"}, title : ShowTitles, season_id : 0..(MaxSeason + 1),
     done : {FALSE}, ret : {<<>>}]

PureInit ==
    /\ config = [first |-> TRUE, private |-> TRUE, user |-> <<"u">>, exclude |-> <<>>]
    /\ store = EmptyStore
    /\ lock = 0
    /\ h = [t \in Threads |-> IdleH]
    /\ now = 1
    /\ delivered = 0
    /\ call \in ExcludeCalls \cup TitleCalls \cup FormatCalls
    /\ history = <<>>
    /\ saved_config = config
    /\ disk = MissingFile

apply_exclude_keyword ==
    /\ call.fn = "exclude_keyword" /\ ~call.done
    /\ call' = [call EXCEPT !.done = TRUE,
                            !.ret = exclude_keyword(call.channel, call.path, call.keywords)]
    /\ UNCHANGED <<config, store, lock, h, now, delivered, history, saved_config, disk>>

\* the title of line 136-137 (TV) and of line 177 (movie)
apply_title ==
    /\ call.fn = "title" /\ ~call.done
    /\ call' = IF call.item_type = "TV"
               THEN IF tv_index(call.item_name) = 0
                    THEN [call EXCEPT !.done = TRUE, !.raised = TRUE]
                    ELSE [call EXCEPT !.done = TRUE, !.ret = tv_title(call.item_name)]
               ELSE [call EXCEPT !.done = TRUE, !.ret = call.item_name]
    /\ UNCHANGED <<config, store, lock, h, now, delivered, history, saved_config, disk>>

apply_format_title ==
    /\ call.fn = "format_title" /\ ~call.done
    /\ call' = [call EXCEPT !.done = TRUE,
                            !.ret = format_title(call.title, call.season_id)]
    /\ UNCHANGED <<config, store, lock, h, now, delivered, history, saved_config, disk>>

PureNext == apply_exclude_keyword \/ apply_title \/ apply_format_title

PureSpec == PureInit /\ [][PureNext]_vars

----------------------------------------------------------------------------
(* Properties *)

\* the handling of r's event has reached its outcome and ran the pipeline
Handled(r) == r.pc = "ret" /\ r.outcome # "Ignored"

Excluded(e) == exclude_keyword(e.channel, e.item_path, config.exclude)

NoRecognizerCall(r) == r.recLog = <<>>
NoArchiveCall(r) == r.findLog = <<>> /\ r.setLog = <<>>

\* the handling wrote nothing: the persisted store is the one it read
StoreUnchanged(r) == ~r.wrote /\ store = r.processed_items

HasMarker(item_name) == Contains(item_name, SeasonMarker)

FirstEpisodeCase(r) ==
    /\ Handled(r)
    /\ r.ev.item_type = "TV"
    /\ r.ev.episode_id < 2
    /\ config.first
    /\ ~Excluded(r.ev)

\* C1 (as stated): every non-excluded TV event with episode index < 2 under
\* first-episode suppression ends as SkippedFirstEpisode, with no recognizer
\* call, no archive call and the store unchanged.
C1_FirstEpisodeAlwaysSkipped ==
    \A t \in Threads :
        FirstEpisodeCase(h[t]) =>
            /\ h[t].outcome = "SkippedFirstEpisode"
            /\ NoRecognizerCall(h[t]) /\ NoArchiveCall(h[t]) /\ StoreUnchanged(h[t])

\* C1 (amended): such an event ends as SkippedFirstEpisode when its item name
\* contains the season marker " S", and with the raised title-normalisation
\* error when it does not; in both cases there is no recognizer call, no
\* archive call and the store is unchanged.
C1_FirstEpisodeSkippedIfMarker ==
    \A t \in Threads :
        FirstEpisodeCase(h[t]) =>
            /\ h[t].outcome = IF HasMarker(h[t].ev.item_name)
                              THEN "SkippedFirstEpisode" ELSE "Raised"
            /\ NoRecognizerCall(h[t]) /\ NoArchiveCall(h[t]) /\ StoreUnchanged(h[t])

C1_Witness ==
    \E t \in Threads :
        /\ FirstEpisodeCase(h[t])
        /\ h[t].outcome = "SkippedFirstEpisode"
        /\ store # EmptyStore

C3_MidSeasonAlreadySynced ==
    \A t \in Threads :
        (/\ h[t].ev.item_type = "TV"
         /\ h[t].mediainfo.found
         /\ h[t].mediainfo.episodes # h[t].ev.episode_id
         /\ format_title(h[t].ctitle, h[t].ev.season_id) \in DOMAIN h[t].processed_items
         /\ ~h[t].wrote)
        => /\ h[t].pc = "ret"
           /\ h[t].outcome = "AlreadySynced"
           /\ NoArchiveCall(h[t]) /\ StoreUnchanged(h[t])

C3_Witness ==
    \E t \in Threads :
        /\ h[t].ev.item_type = "TV"
        /\ h[t].outcome = "AlreadySynced"
        /\ h[t].mediainfo.episodes # h[t].ev.episode_id
        /\ h[t].title \in DOMAIN store

\* a non-excluded movie event being handled whose title had a record in the
\* store when the handling read it
RecordedMovieCase(r) ==
    /\ r.pc \in {"rec1", "rec2", "find", "set", "ret"}
    /\ r.outcome \notin {"Ignored", "Excluded"}
    /\ r.ev.item_type = "MOV"
    /\ r.ev.item_name \in DOMAIN r.processed_items
    /\ ~r.wrote

\* C4 (as stated): a movie event for an already recorded title ends as
\* AlreadySynced with no call to the recognizer or to the archive client and
\* with the store unchanged.
C4_RecordedMovieNoExternalCall ==
    \A t \in Threads :
        RecordedMovieCase(h[t]) =>
            /\ h[t].pc = "ret" => h[t].outcome = "AlreadySynced"
            /\ NoRecognizerCall(h[t]) /\ NoArchiveCall(h[t]) /\ StoreUnchanged(h[t])

\* C4 (amended): such an event makes no archive call and leaves the store
\* unchanged; the recognizer is called before the store is consulted, and the
\* handling ends as AlreadySynced when a lookup succeeds and as
\* RecognitionFailed when both lookups return nothing.
C4_RecordedMovieNoArchiveCall ==
    \A t \in Threads :
        RecordedMovieCase(h[t]) =>
            /\ NoArchiveCall(h[t]) /\ StoreUnchanged(h[t])
            /\ h[t].pc = "ret" =>
                  /\ Len(h[t].recLog) \in {1, 2}
                  /\ h[t].outcome =
                        IF h[t].recLog[Len(h[t].recLog)].found
                        THEN "AlreadySynced" ELSE "RecognitionFailed"

C4_Witness ==
    \E t \in Threads :
        /\ RecordedMovieCase(h[t])
        /\ h[t].outcome = "AlreadySynced"
        /\ Len(h[t].recLog) = 1

\* C5: when set_watching_status accepts the update, the persisted store
\* becomes the store before the event with the display title mapped to the
\* record (subject id, subject name, timestamp, poster path, media kind) and
\* every other key unchanged; the status sent for a movie is "collect".
C5_SyncedUpsertsStore ==
    [][\A t \in Threads :
          (h[t].pc = "set" /\ h'[t].outcome = "Synced") =>
              /\ DOMAIN store' = DOMAIN store \cup {h[t].title}
              /\ \A k \in DOMAIN store : k # h[t].title => store'[k] = store[k]
              /\ store'[h[t].title] =
                    [subject_id |-> h[t].subject.subject_id,
                     subject_name |-> h[t].subject.subject_name,
                     timestamp |-> now,
                     poster_path |-> h[t].mediainfo.poster_path,
                     type |-> IF h[t].ev.item_type = "TV" THEN "TVSeries" ELSE "Movie"]
              /\ h[t].ev.item_type = "MOV" =>
                    h'[t].setLog = <<[subject_id |-> h[t].subject.subject_id,
                                      status |-> "collect",
                                      private |-> config.private]>>]_vars

C5_Witness ==
    \E t \in Threads :
        /\ h[t].pc = "ret"
        /\ h[t].outcome = "Synced"
        /\ h[t].title \in DOMAIN store
        /\ store[h[t].title].timestamp = now - 1
        /\ Cardinality(DOMAIN store) >= 2

\* C6: the store is written only when get_subject_id resolved a subject and
\* set_watching_status accepted: after SubjectNotFound set_watching_status was
\* not called and the store is unchanged, after SyncFailed the store is
\* unchanged.
C6_WriteOnlyOnAcceptedUpdate ==
    \A t \in Threads :
        /\ h[t].outcome = "SubjectNotFound" =>
              h[t].setLog = <<>> /\ StoreUnchanged(h[t])
        /\ h[t].outcome = "SyncFailed" =>
              Len(h[t].setLog) = 1 /\ StoreUnchanged(h[t])
        /\ h[t].wrote =>
              /\ h[t].outcome = "Synced"
              /\ Len(h[t].findLog) = 1 /\ Len(h[t].setLog) = 1
              /\ h[t].subject # NoSubject

C6_Witness ==
    \E t \in Threads :
        /\ h[t].outcome = "SyncFailed"
        /\ store # EmptyStore

\* C7: the recognizer is called at most twice per event, first with the
\* event's tmdb id, then (only after an empty first answer) with the tmdb id
\* cleared; when both answers are empty the outcome is RecognitionFailed, with
\* no archive call and the store unchanged.
C7_RecognizeAtMostTwice ==
    \A t \in Threads :
        LET L == h[t].recLog
        IN  /\ Len(L) <= 2
            /\ Len(L) >= 1 => L[1].tmdbid = h[t].ev.tmdb_id
            /\ Len(L) = 2 => ~L[1].found /\ L[2].tmdbid = "None"
            /\ (Len(L) = 2 /\ ~L[2].found) =>
                  /\ h[t].pc = "ret"
                  /\ h[t].outcome = "RecognitionFailed"
                  /\ NoArchiveCall(h[t]) /\ StoreUnchanged(h[t])
            /\ h[t].outcome = "RecognitionFailed" => Len(L) = 2 /\ ~L[2].found

C7_Witness ==
    \E t \in Threads :
        /\ h[t].outcome = "RecognitionFailed"
        /\ Len(h[t].recLog) = 2
        /\ store # EmptyStore

UnsupportedCase(r) == Handled(r) /\ r.ev.item_type \notin {"TV", "MOV"}

\* C8 (as stated): a handled event whose item type is neither TV nor movie
\* ends as Unsupported whatever its path and the configured keywords are, with
\* no recognizer call, no archive call and the store unchanged.
C8_UnsupportedBeforeExclusion ==
    \A t \in Threads :
        UnsupportedCase(h[t]) =>
            /\ h[t].outcome = "Unsupported"
            /\ NoRecognizerCall(h[t]) /\ NoArchiveCall(h[t]) /\ StoreUnchanged(h[t])

\* C8 (amended): the item type is examined after the exclusion filter: such
\* an event ends as Excluded when the filter excludes it and as Unsupported
\* otherwise; either way no recognizer or archive call is made and the store
\* is unchanged.
C8_UnsupportedAfterExclusion ==
    \A t \in Threads :
        UnsupportedCase(h[t]) =>
            /\ h[t].outcome = IF Excluded(h[t].ev) THEN "Excluded" ELSE "Unsupported"
            /\ NoRecognizerCall(h[t]) /\ NoArchiveCall(h[t]) /\ StoreUnchanged(h[t])

C8_Witness ==
    \E t \in Threads :
        /\ UnsupportedCase(h[t])
        /\ h[t].outcome = "Unsupported"
        /\ store # EmptyStore

\* the fragments of the keyword configuration that are not empty
NonEmptyKeywords(keywords) ==
    {re_split(keywords)[n] : n \in {i \in 1..Len(re_split(keywords)) :
                                        re_split(keywords)[i] # <<>>}}

\* C9: exclude_keyword returns true exactly when the keyword configuration is
\* not empty and some non-empty keyword, split on ASCII or full-width comma,
\* is a substring of the path.
C9_ExcludeIffNonEmptyKeywordInPath ==
    (call.fn = "exclude_keyword" /\ call.done) =>
        (call.ret <=>
            /\ call.keywords # <<>>
            /\ \E k \in NonEmptyKeywords(call.keywords) : Contains(call.path, k))

\* C10: for a TV item name "<show title> S<season>E<episode>" the title used
\* for recognition and for the store key is <show title>; for a movie it is
\* the item name.
C10_CanonicalTitleIsShowTitle ==
    (call.fn = "title" /\ call.done) =>
        /\ ~call.raised
        /\ call.ret = call.show

\* the display title as the claims state it
DisplayTitle(title, season) ==
    IF season <= 1 THEN title
    ELSE title \o <<" ", CharDi>> \o Str(season) \o <<CharJi>>

\* C11: the display title is the title itself for a season index <= 1 and the
\* title followed by the season label for a season index > 1; it is the key
\* of the AlreadySynced lookup, the title given to get_subject_id and the key
\* of the store write.
C11_DisplayTitleIsKey ==
    \A t \in Threads :
        LET r == h[t]
            key == DisplayTitle(r.ctitle, r.ev.season_id)
        IN  (r.ev.item_type = "TV" /\ r.mediainfo.found) =>
                /\ r.title = key
                /\ r.outcome = "AlreadySynced" <=>
                      /\ key \in DOMAIN r.processed_items
                      /\ ~r.wrote
                      /\ r.mediainfo.episodes # r.ev.episode_id
                /\ r.findLog \in {<<>>, <<key>>}
                /\ r.wrote => /\ key \in DOMAIN store
                              /\ store[key].timestamp = now - 1
                              /\ DOMAIN store = DOMAIN r.processed_items

C11_Witness ==
    \E t \in Threads :
        /\ h[t].ev.item_type = "TV"
        /\ h[t].ev.season_id > 1
        /\ h[t].outcome = "AlreadySynced"
        /\ h[t].ctitle \notin DOMAIN store
        /\ h[t].title \in DOMAIN store

\* a successful "collect" for the store key is on record
Collected(title) ==
    \E i \in 1..Len(history) :
        history[i].title = title /\ history[i].status = "collect"

\* C15: once a sync with status "collect" has succeeded for a TV display
\* title, no later handling calls set_watching_status with "do" for it.
C15_NoRegressionAfterCollect ==
    \A t \in Threads :
        (/\ h[t].ev.item_type = "TV"
         /\ h[t].pc = "set" \/ h[t].setLog # <<>>
         /\ h[t].status = "do")
        => ~Collected(h[t].title)

C15_Witness ==
    \E t \in Threads :
        /\ h[t].ev.item_type = "TV"
        /\ h[t].outcome = "AlreadySynced"
        /\ h[t].mediainfo.episodes # h[t].ev.episode_id
        /\ Collected(h[t].title)

\* C19: a TV event whose item name has no season marker makes no recognizer
\* and no archive call and leaves the store unchanged, and its failure does
\* not leave the webhook handler as a raised exception.
C19_NoMarkerFailureHandled ==
    \A t \in Threads :
        (/\ Handled(h[t])
         /\ h[t].ev.item_type = "TV"
         /\ ~HasMarker(h[t].ev.item_name)
         /\ ~Excluded(h[t].ev))
        => /\ NoRecognizerCall(h[t]) /\ NoArchiveCall(h[t]) /\ StoreUnchanged(h[t])
           /\ h[t].outcome # "Raised"

\* the season of the event now handled and the season of an earlier
\* successful sync of the same show
SeasonPairs ==
    {<<history[i].season_id, history[i].title>> : i \in 1..Len(history)}

\* C20 (as stated): events of the same show with different season indices
\* have different store keys, so an earlier sync of another season neither
\* makes the event end as AlreadySynced nor has its record overwritten.
C20_SeasonsNeverShareKey ==
    \A t \in Threads :
        (h[t].ev.item_type = "TV" /\ h[t].mediainfo.found) =>
            \A p \in SeasonPairs :
                p[1] # h[t].ev.season_id => p[2] # h[t].title

\* C20 (amended): the keys differ unless both season indices are <= 1
\* (season 0 and season 1 share the undecorated title).
C20_SeasonsAboveOneNeverShareKey ==
    \A t \in Threads :
        (h[t].ev.item_type = "TV" /\ h[t].mediainfo.found) =>
            \A p \in SeasonPairs :
                (p[1] # h[t].ev.season_id /\ ~(p[1] <= 1 /\ h[t].ev.season_id <= 1))
                    => p[2] # h[t].title

C20_Witness ==
    \E t \in Threads :
        /\ h[t].ev.item_type = "TV"
        /\ h[t].outcome = "Synced"
        /\ h[t].ev.season_id = 2
        /\ \E p \in SeasonPairs : p[1] = 1
        /\ Cardinality(DOMAIN store) = 2

\* a mark-played handling inside `with lock:`
InCritical(t) ==
    h[t].played /\ h[t].pc \in {"rec1", "rec2", "find", "set", "ret"}

\* C12: mark-played handlings exclude one another: at most one is inside the
\* critical section and it holds the lock, and among mark-played deliveries
\* for one movie starting from an empty store at most one update succeeds.
C12_PlayedMutualExclusion ==
    /\ \A t \in Threads : InCritical(t) => lock = t
    /\ Cardinality({t \in Threads : InCritical(t)}) <= 1
    /\ Len(history) <= 1

C12_Witness ==
    \E t, u \in Threads :
        /\ InCritical(t) /\ h[t].outcome = "Synced"
        /\ h[u].pc = "lock" /\ h[u].ev.item_name = h[t].ev.item_name

\* C13: with playback-start and mark-played deliveries mixed, an archive
\* that accepts every update and a store that starts empty, no movie is
\* updated successfully more than once.
C13_AtMostOneUpdatePerMovie ==
    \A i, j \in 1..Len(history) :
        i < j => history[i].title # history[j].title

\* C14: no step of any handling removes a record from the persisted store.
C14_NoRecordDeleted ==
    [][\A k \in DOMAIN store : k \in DOMAIN store']_vars

\* the backup file of the last restore is well formed
WellFormed(f) ==
    f.exists /\ f.parses /\ f.has_config /\ f.has_data /\ f.data.kind = "object"

\* C16: after a successful restore every key of the import maps to the
\* imported value, every other existing key keeps its value, no key is
\* removed or invented, and the persisted configuration is the backup's.
C16_RestoreIsUnionImportWins ==
    (call.fn = "restore" /\ call.result = "ok") =>
        LET import == call.file.data.value
        IN  /\ WellFormed(call.file)
            /\ DOMAIN store = DOMAIN call.existing \cup DOMAIN import
            /\ \A k \in DOMAIN import : store[k] = import[k]
            /\ \A k \in DOMAIN call.existing \ DOMAIN import :
                   store[k] = call.existing[k]
            /\ saved_config = call.file.plugin_config

C16_Witness ==
    /\ call.fn = "restore" /\ call.result = "ok"
    /\ \E k \in DOMAIN call.existing \cap DOMAIN call.file.data.value :
           call.existing[k] # call.file.data.value[k]
    /\ DOMAIN call.existing \ DOMAIN call.file.data.value # {}
    /\ call.config_before # call.file.plugin_config

\* C17: a restore whose backup file is missing, unparsable, lacks the
\* configuration or the data entry, or whose data entry is not a mapping
\* reports an error and leaves the store and the configuration as they were.
C17_MalformedRestoreChangesNothing ==
    (call.fn = "restore" /\ ~WellFormed(call.file)) =>
        /\ call.result \in {"FileNotFoundError", "Exception"}
        /\ call.result = "FileNotFoundError" <=> ~call.file.exists
        /\ store = call.existing
        /\ saved_config = call.config_before

C17_Witness ==
    /\ call.fn = "restore"
    /\ call.file.exists /\ call.file.parses /\ call.file.has_config
    /\ call.file.has_data /\ call.file.data.kind # "object"
    /\ call.file.plugin_config # saved_config
    /\ store # EmptyStore

\* C18: every mark-played handling that was started, waiting for the lock
\* included, reaches a terminal outcome, and the lock it took is released
\* again whatever the outcome; no handling waits for the lock forever.
C18_HandlingEndsAndReleasesLock ==
    \A t \in Threads :
        /\ (h[t].pc \notin {"idle", "ret"}) ~> (h[t].pc = "ret")
        /\ (lock = t) ~> (lock = 0)

C18_Witness ==
    \E t, u \in Threads :
        /\ h[t].outcome = "Raised" /\ h[t].played /\ lock = t
        /\ h[u].pc = "lock"

\* the handler invocation passed its gate: it runs the exclusion check and
\* whatever follows
Pipeline(r) == r.pc # "idle" /\ r.outcome # "Ignored"

\* C21: an event whose user name is not one of the comma-separated
\* configured users passes the gate of neither handler (no exclusion result
\* is acted on, no recognizer or archive call, nothing written), and no
\* event passes the gates of both handlers.
C21_OnlyConfiguredUsersOneHandler ==
    /\ \A t \in Threads :
          (h[t].pc # "idle" /\ h[t].ev.user_name \notin split_comma(config.user))
          => /\ h[t].pc = "ret" /\ h[t].outcome = "Ignored"
             /\ NoRecognizerCall(h[t]) /\ NoArchiveCall(h[t]) /\ ~h[t].wrote
    /\ ~(Pipeline(h[1]) /\ Pipeline(h[2]))

C21_Witness ==
    /\ h[1].ev.user_name = <<"x">> /\ h[1].ev.event \in play_start
    /\ h[1].outcome = "Ignored" /\ h[2].outcome = "Ignored"
    /\ h[1].ev.item_path = <<"a">>
    /\ Len(config.user) > 1
    /\ store # EmptyStore

\* the last init_plugin call had both switches set
BothSwitches ==
    call.fn = "init_plugin" /\ call.run_backup /\ call.run_restore

\* C22: with both switches set the export is done before the import begins:
\* a backup file written by the call holds the store and the configuration
\* as they were when the call started, and when the export did not complete
\* nothing was imported.
C22_ExportBeforeImport ==
    BothSwitches =>
        /\ call.exported =>
              disk = ExportFile(DouBanWatchingConfig(call.saved_before),
                                call.store_before)
        /\ ~call.exported =>
              /\ call.result = "none"
              /\ store = call.store_before
              /\ saved_config = call.saved_before
              /\ disk = call.disk_before

C22_Witness ==
    /\ BothSwitches
    /\ call.exported /\ call.result = "Exception"
    /\ call.store_before # EmptyStore
    /\ call.disk_before.exists /\ call.disk_before # disk

\* the last init_plugin call restored the file an export of the state before
\* it would have written
RoundTrip ==
    /\ call.fn = "init_plugin" /\ call.run_restore /\ ~call.run_backup
    /\ call.path = "file"
    /\ call.disk_before = ExportFile(DouBanWatchingConfig(call.saved_before),
                                     call.store_before)

\* C24: restoring the file just exported leaves the store as it was, and the
\* next init_plugin builds the configuration it built before the export.
C24_RoundTripKeepsStoreAndConfig ==
    RoundTrip =>
        /\ store = call.store_before
        /\ DouBanWatchingConfig(saved_config) = DouBanWatchingConfig(call.saved_before)

\* the record is shown as a card: it has, or the recognizer finds, an
\* original-size poster
Displayable(val, m) ==
    IF val.poster_path = "" THEN m.found /\ HasOriginal(m.poster_path)
    ELSE HasOriginal(val.poster_path)

\* the calendar months that have a displayable record
MonthsPresent(m) ==
    {<<Year(store[k].timestamp), Month(store[k].timestamp)>> :
        k \in {j \in DOMAIN store : Displayable(store[j], m)}}

LimitMonth == IF call.mobile THEN config.mobile_month ELSE config.pc_month
LimitNum == IF call.mobile THEN config.mobile_num ELSE config.pc_num

\* C23: the timeline has min(N, number of months present) month groups,
\* N the configured month count, and the groups are ordered newest first.
C23_ShowsNMostRecentMonths ==
    call.fn = "get_line_item" =>
        LET present == Cardinality(MonthsPresent(call.m))
        IN  /\ Len(call.content) =
                  IF LimitMonth < present THEN LimitMonth ELSE present
            /\ \A i, j \in 1..Len(call.content) :
                  i < j =>
                    \A p \in 1..Len(call.content[i].items),
                       q \in 1..Len(call.content[j].items) :
                        store[call.content[i].items[p]].timestamp
                            > store[call.content[j].items[q]].timestamp

\* C25: the records of one month group lie in one calendar month (same year
\* and same month), are at most the per-month maximum, newest first.
C25_GroupIsOneCalendarMonth ==
    call.fn = "get_line_item" =>
        \A i \in 1..Len(call.content) :
            LET items == call.content[i].items
            IN  /\ Len(items) <= LimitNum
                /\ \A p, q \in 1..Len(items) :
                      /\ Year(store[items[p]].timestamp) = Year(store[items[q]].timestamp)
                      /\ Month(store[items[p]].timestamp) = Month(store[items[q]].timestamp)
                      /\ p < q => store[items[p]].timestamp > store[items[q]].timestamp

====
